---- MODULE Spec2Model ----
(***************************************************************************)
(* The diving-social-app REST facade: the users, dives and auth routers    *)
(* of the backend, the provider (Supabase) tables they read and write,     *)
(* and the requests in flight.  Strings that the code inspects character   *)
(* by character (path segments, the Authorization header, query values)    *)
(* are sequences of one-character strings.                                 *)
(***************************************************************************)
EXTENDS Integers, Sequences, FiniteSets, TLC

VARIABLES
    users,   \* provider table users: a sequence of rows, in insertion order
    dives,   \* provider table dives: a sequence of rows, in insertion order
    auth,    \* provider auth accounts: a sequence of [email, password]
    req,     \* req[r]: the HTTP request slot r is serving (NoReq when free)
    pc,      \* pc[r]: "idle", the provider call the handler awaits, or "done"
    loc,     \* loc[r]: the handler's local variables
    res,     \* res[r]: the response sent (status 0: none yet)
    calls,   \* calls[r]: the provider calls issued so far for the request
    served,  \* requests accepted so far in a bounded session
    env      \* process.env.NODE_ENV ("": not set)

vars == <<users, dives, auth, req, pc, loc, res, calls, served, env>>

----------------------------------------------------------------------------
(* Bounds *)

MaxInflight == 2      \* request slots: requests in flight at once
MaxDives    == 3      \* rows of the dives table in the creation specifications
MaxDepth    == 2      \* max_depth values 1..MaxDepth
MaxClock    == 1      \* server clock readings 1..MaxClock
MaxBodyKeys == 2      \* keys in one PUT body
MaxPage     == 3      \* numeric page / limit query values 0..MaxPage
MaxServed   == 2      \* requests in one session of SpecAll

Slots == 1..MaxInflight
Times == 1..MaxClock
Depths == 1..MaxDepth

(* JavaScript null / undefined of a numeric column or field. *)
Null == -1

(* The list default of `parseInt(req.query.limit) || 10`. *)
DefaultLimit == 10

(* The search handler's `.limit(20)`. *)
SearchLimit == 20

----------------------------------------------------------------------------
(* Strings *)

Digits == <<"0", "1", "2", "3", "4", "5", "6", "7", "8", "9">>
DigitChar(n) == Digits[n + 1]
DigitSet == {Digits[i] : i \in 1..Len(Digits)}
HexSet == DigitSet \cup {"a", "b", "c", "d", "e", "f", "A", "B", "C", "D", "E", "F"}

UuidBase == <<"1", "2", "3", "e", "4", "5", "6", "7", "-", "e", "8", "9", "b", "-", "1", "2", "d", "3", "-", "a", "4", "5", "6", "-", "4", "2", "6", "6", "1", "4", "1", "7", "4", "0", "0">>
DiveBase == <<"0", "d", "1", "e", "0", "0", "0", "0", "-", "0", "0", "0", "0", "-", "4", "0", "0", "0", "-", "8", "0", "0", "0", "-", "0", "0", "0", "0", "0", "0", "0", "0", "0", "0", "0">>
NotAUuid == <<"n", "o", "t", "-", "a", "-", "u", "u", "i", "d">>
Version6Id == <<"1", "2", "3", "e", "4", "5", "6", "7", "-", "e", "8", "9", "b", "-", "6", "2", "d", "3", "-", "a", "4", "5", "6", "-", "4", "2", "6", "6", "1", "4", "1", "7", "4", "0", "0", "0">>
VariantCId == <<"1", "2", "3", "e", "4", "5", "6", "7", "-", "e", "8", "9", "b", "-", "1", "2", "d", "3", "-", "c", "4", "5", "6", "-", "4", "2", "6", "6", "1", "4", "1", "7", "4", "0", "0", "0">>
UpperId == <<"A", "B", "C", "D", "E", "F", "0", "1", "-", "E", "8", "9", "B", "-", "4", "2", "D", "3", "-", "B", "4", "5", "6", "-", "4", "2", "6", "6", "1", "4", "1", "7", "4", "A", "B", "C">>
SegHome == <<>>
SegList == <<"l", "i", "s", "t">>
SegSearch == <<"s", "e", "a", "r", "c", "h">>
SegCreate == <<"c", "r", "e", "a", "t", "e">>
SegRegister == <<"r", "e", "g", "i", "s", "t", "e", "r">>
SegLogin == <<"l", "o", "g", "i", "n">>
SegLogout == <<"l", "o", "g", "o", "u", "t">>
SegProfile == <<"p", "r", "o", "f", "i", "l", "e">>
BearerPrefix == <<"B", "e", "a", "r", "e", "r", " ">>

(* The identifier the provider gives the n-th auth account (and so the     *)
(* n-th users row), and the i-th dives row.                                *)
UserId(n) == Append(UuidBase, DigitChar(n))
DiveId(i) == Append(DiveBase, DigitChar(i))
ShortId == UuidBase

(* /^[0-9a-f]{8}-[0-9a-f]{4}-[1-5][0-9a-f]{3}-[89ab][0-9a-f]{3}-[0-9a-f]{12}$/i *)
uuidRegexLoose(s) ==
    /\ Len(s) = 36
    /\ \A i \in 1..36 :
          IF i \in {9, 14, 19, 24} THEN s[i] = "-" ELSE s[i] \in HexSet

uuidRegex(s) ==
    /\ Len(s) = 36
    /\ \A i \in 1..36 :
          IF i \in {9, 14, 19, 24} THEN s[i] = "-"
          ELSE IF i = 15 THEN s[i] \in {"1", "2", "3", "4", "5"}
          ELSE IF i = 20 THEN s[i] \in {"8", "9", "a", "b", "A", "B"}
          ELSE s[i] \in HexSet

(* String.prototype.trim *)
RECURSIVE TrimLeft(_)
TrimLeft(s) == IF s # <<>> /\ Head(s) = " " THEN TrimLeft(Tail(s)) ELSE s

RECURSIVE TrimRight(_)
TrimRight(s) ==
    IF s # <<>> /\ s[Len(s)] = " " THEN TrimRight(SubSeq(s, 1, Len(s) - 1)) ELSE s

Trim(s) == TrimRight(TrimLeft(s))

(* String.prototype.replace(pattern, '') with a string pattern: the first  *)
(* occurrence is removed.                                                  *)
Replace(s, pat) ==
    LET hits == {i \in 1..(Len(s) - Len(pat) + 1) : SubSeq(s, i, i + Len(pat) - 1) = pat}
    IN  IF hits = {} THEN s
        ELSE LET i == CHOOSE j \in hits : \A k \in hits : j <= k
             IN  SubSeq(s, 1, i - 1) \o SubSeq(s, i + Len(pat), Len(s))

(* parseInt(s): optional sign, then the longest digit prefix; NaN when     *)
(* there is none.  The result is [nan, n].                                 *)
DigitValue(c) == CHOOSE n \in 0..9 : Digits[n + 1] = c

RECURSIVE DigitPrefix(_, _)
DigitPrefix(s, acc) ==
    IF s # <<>> /\ Head(s) \in DigitSet
    THEN DigitPrefix(Tail(s), acc * 10 + DigitValue(Head(s)))
    ELSE acc

parseInt(raw) ==
    LET s    == TrimLeft(raw)
        neg  == s # <<>> /\ Head(s) = "-"
        body == IF s # <<>> /\ Head(s) \in {"-", "+"} THEN Tail(s) ELSE s
    IN  IF body = <<>> \/ Head(body) \notin DigitSet
        THEN [nan |-> TRUE, n |-> 0]
        ELSE [nan |-> FALSE,
              n |-> IF neg THEN 0 - DigitPrefix(body, 0) ELSE DigitPrefix(body, 0)]

(* parseInt(x) || d : NaN and 0 are falsy. *)
parseIntOr(raw, d) ==
    LET p == parseInt(raw) IN IF p.nan \/ p.n = 0 THEN d ELSE p.n

(* Math.ceil(a / b) for b # 0 (JavaScript division is real division). *)
ceilDiv(a, b) ==
    LET x == IF b < 0 THEN 0 - a ELSE a
        y == IF b < 0 THEN 0 - b ELSE b
        q == x \div y
    IN  IF q * y = x THEN q ELSE q + 1

----------------------------------------------------------------------------
(* The provider's tables *)

(* Rows whose column col equals v: PostgREST's .eq(col, v). *)
RowsEq(table, col, v) == {i \in 1..Len(table) : table[i][col] = v}

(* UPDATE ... SET patch WHERE id = v. *)
PatchRow(row, patch) ==
    [c \in DOMAIN row |-> IF c \in DOMAIN patch THEN patch[c] ELSE row[c]]

UpdateEq(table, col, v, patch) ==
    [i \in 1..Len(table) |->
        IF table[i][col] = v THEN PatchRow(table[i], patch) ELSE table[i]]

EmailOf(n) == <<"m", DigitChar(n)>>
NameOf(n) == <<"k", "i", "m", DigitChar(n)>>
PasswordOk == <<"s", "e", "c", "r", "e", "t">>
PasswordShort == <<"s", "e", "c", "r", "e">>
PasswordWrong == <<"w", "r", "o", "n", "g", "!">>

(* The access token of the n-th account's session. *)
TokenOf(n) == <<"t", DigitChar(n)>>
BadToken == <<"x">>

(* The users row register inserts (auth.js 95-109); the columns it does    *)
(* not name are NULL.                                                      *)
NewUserRow(id, email, name, experience, location, t) ==
    [id |-> id, email |-> email, name |-> name,
     diving_experience |-> experience, location |-> location,
     total_dives |-> 0, created_at |-> t,
     bio |-> <<>>, certifications |-> <<>>, social_links |-> <<>>,
     preferences |-> <<>>, deepest_dive |-> Null, updated_at |-> Null]

Beginner == <<"b", "e", "g", "i", "n", "n", "e", "r">>

(* Two registered users with no dives. *)
FreshUsers == <<NewUserRow(UserId(1), EmailOf(1), NameOf(1), Beginner, <<>>, 0),
                NewUserRow(UserId(2), EmailOf(2), NameOf(2), Beginner, <<>>, 0)>>
FreshAuth == <<[email |-> EmailOf(1), password |-> PasswordOk],
               [email |-> EmailOf(2), password |-> PasswordOk]>>

(* The dives row of router.post('/create') (auth.js 460-489), with the     *)
(* columns the handlers read.                                              *)
NewDiveRow(id, user_id, dive_type, dive_number, max_depth) ==
    [id |-> id, user_id |-> user_id, dive_type |-> dive_type,
     dive_number |-> dive_number, max_depth |-> max_depth]

(* The tables after user 1 logged two dives and user 2 one, one request    *)
(* after the other (SeededReachable: SpecSeq reaches this state).          *)
SeededDives == <<NewDiveRow(DiveId(1), UserId(1), "freediving", 1, 1),
                 NewDiveRow(DiveId(2), UserId(2), "scuba", 1, 1),
                 NewDiveRow(DiveId(3), UserId(1), "scuba", 2, 2)>>
SeededUsers ==
    <<[FreshUsers[1] EXCEPT !.total_dives = 2, !.deepest_dive = 2, !.updated_at = 1],
      [FreshUsers[2] EXCEPT !.total_dives = 1, !.deepest_dive = 1, !.updated_at = 1]>>

(* supabase.auth.getUser(token): the account the token belongs to, 0 when  *)
(* it resolves to none.                                                    *)
AccountOfToken(token) ==
    IF \E n \in 1..Len(auth) : TokenOf(n) = token
    THEN CHOOSE n \in 1..Len(auth) : TokenOf(n) = token
    ELSE 0

Max(S) == CHOOSE x \in S : \A y \in S : y <= x
Min(S) == CHOOSE x \in S : \A y \in S : x <= y

----------------------------------------------------------------------------
(* Requests, responses and routing *)

NoReq == [router |-> "none"]
NoLoc == [h |-> "none"]
NoRes == [status |-> 0]
NoQuery == [page |-> <<>>, limit |-> <<>>, sort |-> "", q |-> <<>>,
            user_id |-> <<>>, type |-> ""]
NoBody == <<>>

(* An HTTP request: the router it is mounted under (part_002 163-165),    *)
(* the method, the one path segment after the mount point, the            *)
(* Authorization header (<<>>: none), the JSON body and the query         *)
(* (<<>> or "": the parameter is absent).                                  *)
Request(router, method, seg, authorization, body, query) ==
    [router |-> router, method |-> method, seg |-> seg,
     authorization |-> authorization, body |-> body, query |-> query]

Route(method, path, param, handler) ==
    [method |-> method, path |-> path, param |-> param, handler |-> handler]

(* The routes of each router in the order the file registers them. *)
UsersRoutes ==
    <<Route("GET", SegHome, FALSE, "users.home"),
      Route("GET", SegList, FALSE, "users.list"),
      Route("GET", <<>>, TRUE, "users.detail"),
      Route("PUT", <<>>, TRUE, "users.update"),
      Route("GET", SegSearch, FALSE, "users.search")>>

DivesRoutes ==
    <<Route("GET", SegHome, FALSE, "dives.home"),
      Route("POST", SegCreate, FALSE, "dives.create"),
      Route("GET", SegList, FALSE, "dives.list"),
      Route("GET", <<>>, TRUE, "dives.detail")>>

AuthRoutes ==
    <<Route("GET", SegHome, FALSE, "auth.home"),
      Route("POST", SegRegister, FALSE, "auth.register"),
      Route("POST", SegLogin, FALSE, "auth.login"),
      Route("POST", SegLogout, FALSE, "auth.logout"),
      Route("GET", SegProfile, FALSE, "auth.profile")>>

RoutesOf(router) ==
    CASE router = "users" -> UsersRoutes
      [] router = "dives" -> DivesRoutes
      [] router = "auth" -> AuthRoutes
      [] OTHER -> <<>>

(* A request whose body is not JSON: express.json() (part_002 46) passes  *)
(* its error to the error middleware before any router runs.               *)
Malformed(q) == [malformed |-> TRUE] @@ q
BodyParseFails(q) == "malformed" \in DOMAIN q

(* Express layer matching: the method, and the literal segment or, for    *)
(* '/:id', any non-empty segment.                                          *)
Matches(route, q) ==
    /\ route.method = q.method
    /\ IF route.param THEN q.seg # <<>> ELSE q.seg = route.path

(* The first registered route that matches handles the request; none:     *)
(* the application's catch-all 404 (part_002 196-202).                     *)
Dispatch(q) ==
    LET routes == RoutesOf(q.router)
        hits   == {i \in 1..Len(routes) : Matches(routes[i], q)}
    IN  IF BodyParseFails(q) THEN "app.error"
        ELSE IF hits = {} THEN "app.notFound" ELSE routes[Min(hits)].handler

(* What a handler has done when it first awaits the provider or answers:  *)
(* the call it awaits, its locals and its response.                        *)
Await(call, locals) == [pc |-> call, loc |-> locals, res |-> NoRes]
Reply(handler, status, error, data) ==
    [pc |-> "done", loc |-> NoLoc,
     res |-> [status |-> status, handler |-> handler, error |-> error, data |-> data]]

----------------------------------------------------------------------------
(* The state a provider call leaves: what the handler of slot r does when *)
(* the call it awaits returns.  Keep(r) is "nothing changed".              *)

Keep(r) == [pc |-> pc[r], loc |-> loc[r], res |-> res[r],
            users |-> users, dives |-> dives, auth |-> auth]

Then(r, next) == [Keep(r) EXCEPT !.pc = next.pc, !.loc = next.loc, !.res = next.res]

(* The response pagination block of the two list handlers. *)
Pagination(page, limit, startIndex, count) ==
    [current_page |-> page, per_page |-> limit, total |-> count,
     total_pages |-> ceilDiv(count, limit),
     has_next |-> startIndex + limit < count,
     has_prev |-> page > 1]

(* Rows start..end (zero-based, inclusive) of n rows: .range(start, end). *)
RangeCount(start, end, n) ==
    Cardinality({i \in 0..(n - 1) : start <= i /\ i <= end})

(* s contains sub: the match of ilike '%sub%' on lower-case text. *)
Contains(s, sub) ==
    \E i \in 1..(Len(s) + 1) :
        i + Len(sub) - 1 <= Len(s) /\ SubSeq(s, i, i + Len(sub) - 1) = sub

----------------------------------------------------------------------------
(* Users router (src/frontend/server.js 21-342) *)

(* router.get('/list'): up to the awaited query. *)
usersListStartOffByOne(q) ==
    LET page  == parseIntOr(q.query.page, 1)
        limit == parseIntOr(q.query.limit, DefaultLimit)
        sort  == IF q.query.sort = "" THEN "created_at" ELSE q.query.sort
        startIndex == page * limit
    IN  Await("users.list.select",
              [page |-> page, limit |-> limit, sort |-> sort, startIndex |-> startIndex,
               range |-> <<startIndex, startIndex + limit - 1>>,
               order |-> IF sort = "total_dives" THEN <<"total_dives", "desc">>
                         ELSE IF sort = "name" THEN <<"name", "asc">>
                         ELSE <<"created_at", "desc">>])

usersListStart(q) ==
    LET page  == parseIntOr(q.query.page, 1)
        limit == parseIntOr(q.query.limit, DefaultLimit)
        sort  == IF q.query.sort = "" THEN "created_at" ELSE q.query.sort
        startIndex == (page - 1) * limit
    IN  Await("users.list.select",
              [page |-> page, limit |-> limit, sort |-> sort, startIndex |-> startIndex,
               range |-> <<startIndex, startIndex + limit - 1>>,
               order |-> IF sort = "total_dives" THEN <<"total_dives", "desc">>
                         ELSE IF sort = "name" THEN <<"name", "asc">>
                         ELSE <<"created_at", "desc">>])

(* router.get('/list'): the query returned {data, error, count}. *)
usersListSelect(r, ok) ==
    LET l == loc[r]
        count == Len(users)
    IN  IF ~ok
        THEN Then(r, Reply("users.list", 500, "Database Error", <<>>))
        ELSE Then(r, Reply("users.list", 200, "",
                 [rows |-> RangeCount(l.range[1], l.range[2], count),
                  pagination |-> Pagination(l.page, l.limit, l.startIndex, count),
                  sort |-> l.sort]))

(* router.get('/:id'): the UUID guard. *)
usersDetailStart(q) ==
    IF ~uuidRegex(q.seg)
    THEN Reply("users.detail", 400, "invalid_id", <<>>)
    ELSE Await("users.detail.select", [userId |-> q.seg])

(* router.get('/:id'): users.select('*').eq('id', userId).single() returned. *)
usersDetailSelect(r, ok) ==
    LET rows == RowsEq(users, "id", loc[r].userId)
    IN  IF ~ok
        THEN Then(r, Reply("users.detail", 500, "Database Error", <<>>))
        ELSE IF Cardinality(rows) # 1
        THEN Then(r, Reply("users.detail", 404, "Not Found", <<>>))
        ELSE Then(r, Await("users.detail.stats",
                           [userId |-> loc[r].userId,
                            user |-> users[CHOOSE i \in rows : TRUE]]))

(* router.get('/:id'): the dive statistics query returned; its error is   *)
(* not looked at.                                                          *)
usersDetailStats(r, ok) ==
    LET mine == RowsEq(dives, "user_id", loc[r].userId)
        types == {dives[i].dive_type : i \in mine}
    IN  Then(r, Reply("users.detail", 200, "",
             [user |-> loc[r].user,
              recent_dives |-> IF ok THEN Cardinality(mine) ELSE 0,
              dive_types |-> IF ok
                             THEN [t \in types |->
                                     Cardinality({i \in mine : dives[i].dive_type = t})]
                             ELSE <<>>]))

allowedFieldsWithEmail ==
    <<"name", "email", "bio", "location", "diving_experience",
      "certifications", "social_links", "preferences">>

allowedFields ==
    <<"name", "bio", "location", "diving_experience",
      "certifications", "social_links", "preferences">>

(* allowedFields.forEach(field => { if (updateData[field] !== undefined)  *)
(*   filteredData[field] = updateData[field] })                            *)
RECURSIVE filterFields(_, _, _)
filterFields(fields, updateData, filteredData) ==
    IF fields = <<>> THEN filteredData
    ELSE LET field == Head(fields)
         IN  filterFields(Tail(fields), updateData,
                 IF field \in DOMAIN updateData
                 THEN filteredData @@ (field :> updateData[field])
                 ELSE filteredData)

(* router.put('/:id'): the UUID guard, the allow-list filter, updated_at. *)
usersUpdateStartNoFilter(q, t) ==
    IF ~uuidRegex(q.seg)
    THEN Reply("users.update", 400, "invalid_id", <<>>)
    ELSE IF DOMAIN q.body = {}
         THEN Reply("users.update", 400, "no_fields", [allowed_fields |-> allowedFields])
         ELSE Await("users.update.update",
                    [userId |-> q.seg,
                     filteredData |-> ("updated_at" :> t) @@ q.body])

usersUpdateStart(q, t) ==
    IF ~uuidRegex(q.seg)
    THEN Reply("users.update", 400, "invalid_id", <<>>)
    ELSE LET filteredData == filterFields(allowedFields, q.body, <<>>)
         IN  IF DOMAIN filteredData = {}
             THEN Reply("users.update", 400, "no_fields",
                        [allowed_fields |-> allowedFields])
             ELSE Await("users.update.update",
                        [userId |-> q.seg,
                         filteredData |-> ("updated_at" :> t) @@ filteredData])

(* router.put('/:id'): users.update(filteredData).eq('id', userId)        *)
(* .select().single() returned.                                            *)
usersUpdateUpdate(r, ok) ==
    LET rows == RowsEq(users, "id", loc[r].userId)
        after == UpdateEq(users, "id", loc[r].userId, loc[r].filteredData)
    IN  IF ~ok
        THEN Then(r, Reply("users.update", 500, "Database Error", <<>>))
        ELSE IF Cardinality(rows) # 1
        THEN [Then(r, Reply("users.update", 404, "Not Found", <<>>))
                EXCEPT !.users = after]
        ELSE [Then(r, Reply("users.update", 200, "",
                   [user |-> after[CHOOSE i \in rows : TRUE],
                    updated_fields |-> DOMAIN loc[r].filteredData]))
                EXCEPT !.users = after]

(* router.get('/search'): the query-length check. *)
usersSearchStart(q) ==
    IF q.query.q = <<>> \/ Len(Trim(q.query.q)) < 2
    THEN Reply("users.search", 400, "short_query", <<>>)
    ELSE Await("users.search.select", [query |-> q.query.q])

(* router.get('/search'): the ilike query with .limit(20) returned. *)
usersSearchSelect(r, ok) ==
    LET found == {i \in 1..Len(users) : Contains(users[i].name, loc[r].query)}
        n == IF Cardinality(found) > SearchLimit THEN SearchLimit ELSE Cardinality(found)
    IN  IF ~ok
        THEN Then(r, Reply("users.search", 500, "Database Error", <<>>))
        ELSE Then(r, Reply("users.search", 200, "",
                 [search_term |-> loc[r].query, total_found |-> n]))

----------------------------------------------------------------------------
(* Dives router (src/backend/routes/auth.js 346-693) *)

requiredFields == <<"dive_type", "location_name", "dive_date", "max_depth">>

(* !req.body[field]: a missing field and a falsy one ("" for the text     *)
(* fields, 0 for max_depth) are alike.                                     *)
IsMissing(body, field) ==
    field \notin DOMAIN body \/ body[field] = (IF field = "max_depth" THEN 0 ELSE "")

missingFields(body) == SelectSeq(requiredFields, LAMBDA f : IsMissing(body, f))

(* The token of `req.headers.authorization?.replace('Bearer ', '')`. *)
bearerToken(q) == Replace(q.authorization, BearerPrefix)

(* router.post('/create'): the token check (399-406). *)
createStartNoTokenCheck(q) ==
    Await("dives.create.getUser", [token |-> bearerToken(q)])

createStart(q) ==
    LET token == bearerToken(q)
    IN  IF token = <<>>
        THEN Reply("dives.create", 401, "token_required", <<>>)
        ELSE Await("dives.create.getUser", [token |-> token])

(* The required-field and dive_type checks (419-439). *)
createValidateNoTypeCheck(body) ==
    IF missingFields(body) # <<>> THEN "missing_fields" ELSE ""

createValidate(body) ==
    IF missingFields(body) # <<>> THEN "missing_fields"
    ELSE IF body.dive_type \notin {"freediving", "scuba"} THEN "bad_dive_type"
    ELSE ""

(* The same handler step, taking any token for the first account's. *)
createGetUserAnyToken(r, ok) ==
    LET body == req[r].body
        bad == createValidate(body)
    IN  IF bad = "missing_fields"
        THEN Then(r, Reply("dives.create", 400, bad,
                 [missing_fields |-> missingFields(body),
                  required_fields |-> requiredFields]))
        ELSE IF bad = "bad_dive_type"
        THEN Then(r, Reply("dives.create", 400, bad,
                 [allowed_types |-> <<"freediving", "scuba">>]))
        ELSE Then(r, Await("dives.create.count",
                 [user_id |-> UserId(1), dive_type |-> body.dive_type,
                  max_depth |-> body.max_depth]))

(* router.post('/create'): auth.getUser(token) returned; then the body    *)
(* is validated (408-439).                                                 *)
createGetUser(r, ok) ==
    LET n == AccountOfToken(loc[r].token)
        body == req[r].body
        bad == createValidate(body)
    IN  IF ~ok \/ n = 0
        THEN Then(r, Reply("dives.create", 401, "invalid_token", <<>>))
        ELSE IF bad = "missing_fields"
        THEN Then(r, Reply("dives.create", 400, bad,
                 [missing_fields |-> missingFields(body),
                  required_fields |-> requiredFields]))
        ELSE IF bad = "bad_dive_type"
        THEN Then(r, Reply("dives.create", 400, bad,
                 [allowed_types |-> <<"freediving", "scuba">>]))
        ELSE Then(r, Await("dives.create.count",
                 [user_id |-> UserId(n), dive_type |-> body.dive_type,
                  max_depth |-> body.max_depth]))

(* const nextDiveNumber = (currentDiveCount || 0) + 1 *)
nextDiveNumberStale(count) == IF count = Null \/ count = 0 THEN 1 ELSE count

nextDiveNumberOf(count) == (IF count = Null \/ count = 0 THEN 0 ELSE count) + 1

(* router.post('/create'): the count query returned (441-447); a failed   *)
(* query leaves count null, and its error is not looked at.                *)
createCount(r, ok) ==
    LET l == loc[r]
        currentDiveCount ==
            IF ok THEN Cardinality(RowsEq(dives, "user_id", l.user_id)) ELSE Null
    IN  Then(r, Await("dives.create.insert",
             [user_id |-> l.user_id, dive_type |-> l.dive_type,
              max_depth |-> l.max_depth,
              nextDiveNumber |-> nextDiveNumberOf(currentDiveCount)]))

(* router.post('/create'): the insert returned (460-504); t is the clock  *)
(* reading of updateData.updated_at.                                       *)
createInsert(r, ok, t) ==
    LET l == loc[r]
        newDive == NewDiveRow(DiveId(Len(dives) + 1), l.user_id, l.dive_type,
                              l.nextDiveNumber, l.max_depth)
    IN  IF ~ok
        THEN Then(r, Reply("dives.create", 500, "Database Error",
                           [details |-> "diveError.message"]))
        ELSE [Then(r, Await("dives.create.readDeepest",
                   [user_id |-> l.user_id, max_depth |-> l.max_depth,
                    nextDiveNumber |-> l.nextDiveNumber, newDive |-> newDive,
                    updateData |-> [total_dives |-> l.nextDiveNumber,
                                    updated_at |-> t]]))
                EXCEPT !.dives = Append(dives, newDive)]

(* if (!currentUser?.deepest_dive || max_depth > currentUser.deepest_dive) *)
isDeeperAlways(currentUser, max_depth) == TRUE

isDeeper(currentUser, max_depth) ==
    \/ currentUser = Null
    \/ currentUser = 0
    \/ max_depth > currentUser

(* router.post('/create'): the deepest_dive read returned (506-515);      *)
(* currentUser is null when the read fails or finds no single row.         *)
createReadDeepest(r, ok) ==
    LET l == loc[r]
        rows == RowsEq(users, "id", l.user_id)
        currentUser == IF ok /\ Cardinality(rows) = 1
                       THEN users[CHOOSE i \in rows : TRUE].deepest_dive
                       ELSE Null
    IN  Then(r, Await("dives.create.update",
             [l EXCEPT !.updateData =
                 IF isDeeper(currentUser, l.max_depth)
                 THEN ("deepest_dive" :> l.max_depth) @@ @
                 ELSE @]))

(* router.post('/create'): the users update returned (517-531); its       *)
(* result is not looked at.                                                *)
createUpdate(r, ok) ==
    LET l == loc[r]
    IN  [Then(r, Reply("dives.create", 201, "",
             [dive |-> l.newDive,
              stats |-> [dive_number |-> l.nextDiveNumber,
                         is_new_depth_record |->
                             /\ "deepest_dive" \in DOMAIN l.updateData
                             /\ l.updateData.deepest_dive = l.max_depth]]))
           EXCEPT !.users = IF ok THEN UpdateEq(users, "id", l.user_id, l.updateData)
                            ELSE users]

(* router.get('/list'): up to the awaited query (545-579). *)
divesListStart(q) ==
    LET page  == parseIntOr(q.query.page, 1)
        limit == parseIntOr(q.query.limit, DefaultLimit)
        startIndex == (page - 1) * limit
    IN  Await("dives.list.select",
              [page |-> page, limit |-> limit, startIndex |-> startIndex,
               range |-> <<startIndex, startIndex + limit - 1>>,
               user_id |-> q.query.user_id, dive_type |-> q.query.type])

(* The rows of dives joined users!inner: those whose user row exists. *)
Joined == {i \in 1..Len(dives) : RowsEq(users, "id", dives[i].user_id) # {}}

(* router.get('/list'): the query returned {data, error, count}. *)
divesListSelect(r, ok) ==
    LET l == loc[r]
        found == {i \in Joined :
                    /\ l.user_id # <<>> => dives[i].user_id = l.user_id
                    /\ l.dive_type # "" => dives[i].dive_type = l.dive_type}
        count == Cardinality(found)
    IN  IF ~ok
        THEN Then(r, Reply("dives.list", 500, "Database Error", <<>>))
        ELSE Then(r, Reply("dives.list", 200, "",
                 [rows |-> RangeCount(l.range[1], l.range[2], count),
                  pagination |-> Pagination(l.page, l.limit, l.startIndex, count),
                  filters |-> [user_id |-> l.user_id, dive_type |-> l.dive_type]]))

(* router.get('/:id'): the UUID guard (628-639). *)
divesDetailStart(q) ==
    IF ~uuidRegex(q.seg)
    THEN Reply("dives.detail", 400, "invalid_id", <<>>)
    ELSE Await("dives.detail.select", [diveId |-> q.seg])

(* router.get('/:id'): the joined select returned (643-681). *)
divesDetailSelect(r, ok) ==
    LET rows == {i \in Joined : dives[i].id = loc[r].diveId}
    IN  IF ~ok
        THEN Then(r, Reply("dives.detail", 500, "Database Error", <<>>))
        ELSE IF Cardinality(rows) # 1
        THEN Then(r, Reply("dives.detail", 404, "Not Found", <<>>))
        ELSE Then(r, Reply("dives.detail", 200, "",
                 [dive |-> dives[CHOOSE i \in rows : TRUE]]))

----------------------------------------------------------------------------
(* Auth router (src/backend/routes/auth.js 1-345) *)

(* router.post('/register'): the required-field and password checks. *)
registerStartNoLength(q) ==
    LET b == q.body
    IN  IF b.email = <<>> \/ b.password = <<>> \/ b.name = <<>>
        THEN Reply("auth.register", 400, "missing_fields",
                   [required_fields |-> <<"email", "password", "name">>])
        ELSE Await("auth.register.signUp",
                   [email |-> b.email, password |-> b.password, name |-> b.name])

registerStart(q) ==
    LET b == q.body
    IN  IF b.email = <<>> \/ b.password = <<>> \/ b.name = <<>>
        THEN Reply("auth.register", 400, "missing_fields",
                   [required_fields |-> <<"email", "password", "name">>])
        ELSE IF Len(b.password) < 6
        THEN Reply("auth.register", 400, "short_password", <<>>)
        ELSE Await("auth.register.signUp",
                   [email |-> b.email, password |-> b.password, name |-> b.name])

(* router.post('/register'): auth.signUp returned (62-90).  The provider  *)
(* reports 'already registered' for an email that has an account, and      *)
(* with ~ok some other error.                                              *)
registerSignUpNoConflict(r, ok) ==
    LET l == loc[r]
    IN  IF ~ok
        THEN Then(r, Reply("auth.register", 400, "Auth Error",
                           [message |-> "authError.message"]))
        ELSE [Then(r, Await("auth.register.insert",
                   [id |-> UserId(Len(auth) + 1), email |-> l.email, name |-> l.name]))
                EXCEPT !.auth = Append(auth, [email |-> l.email, password |-> l.password])]

registerSignUp(r, ok) ==
    LET l == loc[r]
        taken == \E n \in 1..Len(auth) : auth[n].email = l.email
    IN  IF ~ok
        THEN Then(r, Reply("auth.register", 400, "Auth Error",
                           [message |-> "authError.message"]))
        ELSE IF taken
        THEN Then(r, Reply("auth.register", 409, "EMAIL_ALREADY_EXISTS", <<>>))
        ELSE [Then(r, Await("auth.register.insert",
                   [id |-> UserId(Len(auth) + 1), email |-> l.email, name |-> l.name]))
                EXCEPT !.auth = Append(auth, [email |-> l.email, password |-> l.password])]

(* router.post('/register'): the users insert returned (95-142). *)
registerInsert(r, ok, t) ==
    LET l == loc[r]
        row == NewUserRow(l.id, l.email, l.name, Beginner, <<>>, t)
    IN  IF ~ok
        THEN Then(r, Reply("auth.register", 500, "Database Error",
                           [details |-> "userError.message"]))
        ELSE [Then(r, Reply("auth.register", 201, "", [user |-> row]))
                EXCEPT !.users = Append(users, row)]

(* router.post('/login'): the required-field check (160-170). *)
loginStart(q) ==
    LET b == q.body
    IN  IF b.email = <<>> \/ b.password = <<>>
        THEN Reply("auth.login", 400, "missing_fields",
                   [required_fields |-> <<"email", "password">>])
        ELSE Await("auth.login.signIn", [email |-> b.email, password |-> b.password])

(* router.post('/login'): auth.signInWithPassword returned (177-192). *)
loginSignIn(r, ok) ==
    LET l == loc[r]
        hits == {n \in 1..Len(auth) :
                    auth[n].email = l.email /\ auth[n].password = l.password}
    IN  IF ~ok \/ hits = {}
        THEN Then(r, Reply("auth.login", 401, "INVALID_CREDENTIALS", <<>>))
        ELSE Then(r, Await("auth.login.select", [n |-> Min(hits)]))

(* router.post('/login'): the users row read returned (197-224); a failed *)
(* read falls back to the auth identity.                                   *)
loginSelect(r, ok) ==
    LET n == loc[r].n
        rows == RowsEq(users, "id", UserId(n))
    IN  Then(r, Reply("auth.login", 200, "",
             [user |-> IF ok /\ Cardinality(rows) = 1
                       THEN users[CHOOSE i \in rows : TRUE]
                       ELSE [id |-> UserId(n), email |-> auth[n].email],
              access_token |-> TokenOf(n)]))

(* router.post('/logout'): signOut is called only with a token (244-262). *)
logoutStart(q) ==
    IF bearerToken(q) # <<>>
    THEN Await("auth.logout.signOut", NoLoc)
    ELSE Reply("auth.logout", 200, "", <<>>)

logoutSignOut(r, ok) == Then(r, Reply("auth.logout", 200, "", <<>>))

(* router.get('/profile'): the token check (282-290). *)
profileStart(q) ==
    LET token == bearerToken(q)
    IN  IF token = <<>>
        THEN Reply("auth.profile", 401, "token_required", <<>>)
        ELSE Await("auth.profile.getUser", [token |-> token])

(* router.get('/profile'): auth.getUser(token) returned (296-305). *)
profileGetUser(r, ok) ==
    LET n == AccountOfToken(loc[r].token)
    IN  IF ~ok \/ n = 0
        THEN Then(r, Reply("auth.profile", 401, "invalid_token", <<>>))
        ELSE Then(r, Await("auth.profile.select", [id |-> UserId(n)]))

(* router.get('/profile'): the users row read returned (310-331); every   *)
(* error is answered 404.                                                  *)
profileSelect(r, ok) ==
    LET rows == RowsEq(users, "id", loc[r].id)
    IN  IF ~ok \/ Cardinality(rows) # 1
        THEN Then(r, Reply("auth.profile", 404, "Not Found", <<>>))
        ELSE Then(r, Reply("auth.profile", 200, "",
                 [user |-> users[CHOOSE i \in rows : TRUE]]))

----------------------------------------------------------------------------
(* The error-handling middleware (part_002 205-217): details and stack    *)
(* only when NODE_ENV is 'development'.                                    *)
errorMiddleware ==
    Reply("app.error", 500, "Internal Server Error",
          IF env = "development"
          THEN [details |-> "err.message", stack |-> "err.stack"]
          ELSE <<>>)

(* A request arrives: Express dispatches it and the handler runs up to    *)
(* its first awaited provider call or its answer.  t is the server clock. *)

Handle(q, t) ==
    LET h == Dispatch(q)
    IN  CASE h = "users.list"    -> usersListStart(q)
          [] h = "users.detail"  -> usersDetailStart(q)
          [] h = "users.update"  -> usersUpdateStart(q, t)
          [] h = "users.search"  -> usersSearchStart(q)
          [] h = "dives.create"  -> createStart(q)
          [] h = "dives.list"    -> divesListStart(q)
          [] h = "dives.detail"  -> divesDetailStart(q)
          [] h = "auth.register" -> registerStart(q)
          [] h = "auth.login"    -> loginStart(q)
          [] h = "auth.logout"   -> logoutStart(q)
          [] h = "auth.profile"  -> profileStart(q)
          [] h = "app.error"     -> errorMiddleware
          [] h \in {"users.home", "dives.home", "auth.home"} -> Reply(h, 200, "", <<>>)
          [] OTHER -> Reply("app.notFound", 404, "Not Found", <<>>)

Free(r) == pc[r] = "idle"
AllFree == \A r \in Slots : Free(r)

(* The provider calls issued for a request, the one awaited included. *)
Issue(issued, call) == IF call = "done" THEN issued ELSE Append(issued, call)

Start(r, q, t) ==
    /\ Free(r)
    /\ \A s \in Slots : s < r => ~Free(s)
    /\ LET o == Handle(q, t)
       IN  /\ pc' = [pc EXCEPT ![r] = o.pc]
           /\ loc' = [loc EXCEPT ![r] = o.loc]
           /\ res' = [res EXCEPT ![r] = o.res]
           /\ calls' = [calls EXCEPT ![r] = Issue(<<>>, o.pc)]
    /\ req' = [req EXCEPT ![r] = q]
    /\ UNCHANGED <<users, dives, auth, env>>

(* The provider call that slot r awaits returns, leaving o. *)
Return(r, o) ==
    /\ pc' = [pc EXCEPT ![r] = o.pc]
    /\ loc' = [loc EXCEPT ![r] = o.loc]
    /\ res' = [res EXCEPT ![r] = o.res]
    /\ users' = o.users
    /\ dives' = o.dives
    /\ auth' = o.auth
    /\ calls' = [calls EXCEPT ![r] = Issue(@, o.pc)]
    /\ UNCHANGED <<req, served, env>>

(* The response of slot r has been sent: the request is over. *)
Finish(r) ==
    /\ pc[r] = "done"
    /\ req' = [req EXCEPT ![r] = NoReq]
    /\ pc' = [pc EXCEPT ![r] = "idle"]
    /\ loc' = [loc EXCEPT ![r] = NoLoc]
    /\ res' = [res EXCEPT ![r] = NoRes]
    /\ calls' = [calls EXCEPT ![r] = <<>>]
    /\ UNCHANGED <<users, dives, auth, served, env>>

----------------------------------------------------------------------------
(* The requests the clients send *)

Bearer(token) == BearerPrefix \o token

PathIds == {UserId(1), UserId(2), UserId(3), DiveId(1), NotAUuid, SegSearch,
            Version6Id, VariantCId, UpperId, ShortId}

(* Query values of page and limit: absent, numeric, and text parseInt     *)
(* reads differently.                                                      *)
NumericRaw == {<<DigitChar(n)>> : n \in 0..MaxPage}
OddRaw == {<<>>, <<"-", "1">>, <<"a">>, <<"2", "x">>, <<"1", "0">>}

UsersListRequests ==
    {Request("users", "GET", SegList, <<>>, NoBody,
             [NoQuery EXCEPT !.page = p, !.limit = l, !.sort = s]) :
        p \in NumericRaw \cup OddRaw, l \in NumericRaw \cup OddRaw,
        s \in {"", "name", "total_dives", "bogus"}}

UsersDetailRequests ==
    {Request("users", "GET", id, <<>>, NoBody, NoQuery) : id \in PathIds}

(* The keys a PUT body may carry and the value the client sends for each. *)
BodyKeys == {"name", "preferences", "id", "email", "total_dives",
             "deepest_dive", "created_at", "updated_at"}

ClientValue(k) ==
    CASE k = "id" -> UserId(9)
      [] k = "email" -> <<"e", "v", "i", "l">>
      [] k \in {"total_dives", "deepest_dive"} -> 99
      [] k \in {"created_at", "updated_at"} -> 0
      [] OTHER -> <<"x">>

Bodies ==
    {[k \in K |-> ClientValue(k)] :
        K \in {S \in SUBSET BodyKeys : Cardinality(S) <= MaxBodyKeys}}

UsersUpdateRequests ==
    {Request("users", "PUT", id, <<>>, b, NoQuery) :
        id \in {UserId(1), UserId(2), UserId(3), NotAUuid, SegSearch}, b \in Bodies}

SearchTerms == {<<>>, <<"a">>, <<"a", "b">>, <<" ", "a", " ">>, <<"k", "i", "m">>}

UsersSearchRequests ==
    {Request("users", "GET", SegSearch, <<>>, NoBody, [NoQuery EXCEPT !.q = q]) :
        q \in SearchTerms}

DivesListRequests ==
    {Request("dives", "GET", SegList, <<>>, NoBody,
             [NoQuery EXCEPT !.page = p, !.limit = l, !.user_id = u, !.type = ty]) :
        p \in NumericRaw \cup OddRaw, l \in NumericRaw \cup OddRaw,
        u \in {<<>>, UserId(1), UserId(2)}, ty \in {"", "freediving", "scuba"}}

DivesDetailRequests ==
    {Request("dives", "GET", id, <<>>, NoBody, NoQuery) : id \in PathIds}

CreateBody(dive_type, location_name, dive_date, max_depth) ==
    [dive_type |-> dive_type, location_name |-> location_name,
     dive_date |-> dive_date, max_depth |-> max_depth]

ValidCreateBodies ==
    {CreateBody(ty, "Jeju", "2024-05-01", d) : ty \in {"freediving", "scuba"}, d \in Depths}

InvalidCreateBodies ==
    {CreateBody("kayaking", "Jeju", "2024-05-01", 1),
     CreateBody("", "Jeju", "2024-05-01", 1),
     CreateBody("scuba", "", "2024-05-01", 1),
     CreateBody("scuba", "Jeju", "", 1),
     CreateBody("scuba", "Jeju", "2024-05-01", 0),
     CreateBody("kayaking", "", "", 0)}

Credentials == {<<>>, BearerPrefix, Bearer(BadToken), Bearer(TokenOf(1)),
                Bearer(TokenOf(2)), TokenOf(1)}

CreateRequest(authorization, body) ==
    Request("dives", "POST", SegCreate, authorization, body, NoQuery)

CreateRequests ==
    {CreateRequest(a, b) : a \in Credentials, b \in ValidCreateBodies \cup InvalidCreateBodies}

RegisterBody(email, password, name) ==
    [email |-> email, password |-> password, name |-> name]

RegisterRequests ==
    {Request("auth", "POST", SegRegister, <<>>, RegisterBody(e, p, n), NoQuery) :
        e \in {<<>>, EmailOf(1), EmailOf(3)},
        p \in {<<>>, PasswordShort, PasswordOk},
        n \in {<<>>, NameOf(3)}}

LoginRequests ==
    {Request("auth", "POST", SegLogin, <<>>, RegisterBody(e, p, <<>>), NoQuery) :
        e \in {<<>>, EmailOf(1), EmailOf(3)},
        p \in {<<>>, PasswordOk, PasswordWrong}}

LogoutRequests ==
    {Request("auth", "POST", SegLogout, a, NoBody, NoQuery) :
        a \in {<<>>, Bearer(TokenOf(1))}}

ProfileRequests ==
    {Request("auth", "GET", SegProfile, a, NoBody, NoQuery) :
        a \in {<<>>, BearerPrefix, Bearer(BadToken), Bearer(TokenOf(1)), Bearer(TokenOf(3))}}

OtherRequests ==
    {Request("users", "GET", SegHome, <<>>, NoBody, NoQuery),
     Request("dives", "DELETE", DiveId(1), <<>>, NoBody, NoQuery)}

MalformedRequests ==
    {Malformed(Request("auth", "POST", SegRegister, <<>>, NoBody, NoQuery))}

----------------------------------------------------------------------------
(* Actions: one per awaited provider call.  ok: the provider reports no   *)
(* error.                                                                  *)

(* The users router's awaited query returns.  The search handler's query  *)
(* is one arm of it: no request reaches router.get('/search').             *)
UsersAwait(r, ok) ==
    /\ pc[r] \in {"users.list.select", "users.detail.select", "users.detail.stats",
                  "users.update.update", "users.search.select"}
    /\ Return(r, CASE pc[r] = "users.list.select" -> usersListSelect(r, ok)
                   [] pc[r] = "users.detail.select" -> usersDetailSelect(r, ok)
                   [] pc[r] = "users.detail.stats" -> usersDetailStats(r, ok)
                   [] pc[r] = "users.update.update" -> usersUpdateUpdate(r, ok)
                   [] pc[r] = "users.search.select" -> usersSearchSelect(r, ok))

DivesListSelect(r, ok) ==
    pc[r] = "dives.list.select" /\ Return(r, divesListSelect(r, ok))

DivesDetailSelect(r, ok) ==
    pc[r] = "dives.detail.select" /\ Return(r, divesDetailSelect(r, ok))

CreateGetUser(r, ok) ==
    pc[r] = "dives.create.getUser" /\ Return(r, createGetUser(r, ok))

CreateCount(r, ok) ==
    pc[r] = "dives.create.count" /\ Return(r, createCount(r, ok))

CreateInsert(r, ok) ==
    pc[r] = "dives.create.insert" /\ \E t \in Times : Return(r, createInsert(r, ok, t))

CreateReadDeepest(r, ok) ==
    pc[r] = "dives.create.readDeepest" /\ Return(r, createReadDeepest(r, ok))

CreateUpdate(r, ok) ==
    pc[r] = "dives.create.update" /\ Return(r, createUpdate(r, ok))

RegisterSignUp(r, ok) ==
    pc[r] = "auth.register.signUp" /\ Return(r, registerSignUp(r, ok))

RegisterInsert(r, ok) ==
    pc[r] = "auth.register.insert" /\ \E t \in Times : Return(r, registerInsert(r, ok, t))

LoginSignIn(r, ok) ==
    pc[r] = "auth.login.signIn" /\ Return(r, loginSignIn(r, ok))

LoginSelect(r, ok) ==
    pc[r] = "auth.login.select" /\ Return(r, loginSelect(r, ok))

LogoutSignOut(r, ok) ==
    pc[r] = "auth.logout.signOut" /\ Return(r, logoutSignOut(r, ok))

ProfileGetUser(r, ok) ==
    pc[r] = "auth.profile.getUser" /\ Return(r, profileGetUser(r, ok))

ProfileSelect(r, ok) ==
    pc[r] = "auth.profile.select" /\ Return(r, profileSelect(r, ok))

----------------------------------------------------------------------------
(* Specifications *)

IdleSlots ==
    /\ req = [r \in Slots |-> NoReq]
    /\ pc = [r \in Slots |-> "idle"]
    /\ loc = [r \in Slots |-> NoLoc]
    /\ res = [r \in Slots |-> NoRes]
    /\ calls = [r \in Slots |-> <<>>]
    /\ served = 0

(* Two registered users who have not dived yet. *)
InitFresh ==
    /\ users = FreshUsers
    /\ dives = <<>>
    /\ auth = FreshAuth
    /\ IdleSlots
    /\ env = "production"

(* The same, in any environment. *)
Envs == {"development", "production", ""}

InitAll ==
    /\ users = FreshUsers
    /\ dives = <<>>
    /\ auth = FreshAuth
    /\ IdleSlots
    /\ env \in Envs

(* The same users after three dives were logged. *)
Init ==
    /\ users = SeededUsers
    /\ dives = SeededDives
    /\ auth = FreshAuth
    /\ IdleSlots
    /\ env = "production"

InFlight == Cardinality({r \in Slots : ~Free(r)})

(* Spec: the users router and the read routes of the dives router, one    *)
(* request at a time, any number of requests.                              *)
BrowseRequests ==
    UsersListRequests \cup UsersDetailRequests \cup UsersUpdateRequests
        \cup UsersSearchRequests \cup DivesListRequests \cup DivesDetailRequests
        \cup OtherRequests

StartBrowse ==
    /\ AllFree
    /\ \E q \in BrowseRequests, t \in Times : Start(1, q, t)
    /\ UNCHANGED served

Next ==
    \/ StartBrowse
    \/ \E r \in Slots : Finish(r)
    \/ \E r \in Slots, ok \in BOOLEAN :
          \/ UsersAwait(r, ok)
          \/ DivesListSelect(r, ok)
          \/ DivesDetailSelect(r, ok)

Spec == Init /\ [][Next]_vars

(* SpecSeq: dive-creation requests with a valid token and body, each       *)
(* completing before the next starts, every provider call succeeding.      *)
SeqRequests ==
    {CreateRequest(Bearer(TokenOf(n)), b) : n \in 1..2, b \in ValidCreateBodies}

StartCreateSeq ==
    /\ AllFree
    /\ Len(dives) < MaxDives
    /\ \E q \in SeqRequests, t \in Times : Start(1, q, t)
    /\ UNCHANGED served

NextSeq ==
    \/ StartCreateSeq
    \/ \E r \in Slots :
          \/ Finish(r)
          \/ CreateGetUser(r, TRUE)
          \/ CreateCount(r, TRUE)
          \/ CreateInsert(r, TRUE)
          \/ CreateReadDeepest(r, TRUE)
          \/ CreateUpdate(r, TRUE)

SpecSeq == InitFresh /\ [][NextSeq]_vars

(* SpecConc: dive-creation requests served concurrently: a request may     *)
(* arrive while others await the provider.  Every provider call succeeds.  *)
ConcRequests ==
    {CreateRequest(a, b) :
        a \in {<<>>, Bearer(BadToken), Bearer(TokenOf(1)), Bearer(TokenOf(2))},
        b \in {CreateBody("freediving", "Jeju", "2024-05-01", d) : d \in Depths}
                \cup {CreateBody("kayaking", "Jeju", "2024-05-01", 1),
                      CreateBody("scuba", "Jeju", "2024-05-01", 0)}}

StartCreate ==
    /\ Len(dives) + InFlight < MaxDives
    /\ \E r \in Slots, q \in ConcRequests, t \in Times : Start(r, q, t)
    /\ UNCHANGED served

NextConc ==
    \/ StartCreate
    \/ \E r \in Slots :
          \/ Finish(r)
          \/ CreateGetUser(r, TRUE)
          \/ CreateCount(r, TRUE)
          \/ CreateInsert(r, TRUE)
          \/ CreateReadDeepest(r, TRUE)
          \/ CreateUpdate(r, TRUE)

SpecConc == InitFresh /\ [][NextConc]_vars

(* SpecAll: a session of at most MaxServed requests to any route, one at   *)
(* a time.                                                                 *)
AllRequests ==
    {q \in UsersDetailRequests \cup DivesDetailRequests :
            q.seg \in {UserId(1), DiveId(1), NotAUuid, Version6Id}}
        \cup UsersSearchRequests
        \cup {q \in CreateRequests : q.body.dive_type # "scuba" \/ q.body.max_depth = 0}
        \cup RegisterRequests \cup LoginRequests
        \cup LogoutRequests \cup ProfileRequests \cup OtherRequests
        \cup MalformedRequests
        \cup {q \in UsersUpdateRequests :
                Cardinality(DOMAIN q.body) <= 1 /\ q.seg \in {UserId(1), NotAUuid}}
        \cup {q \in UsersListRequests \cup DivesListRequests :
                q.query.page = <<>> /\ q.query.limit = <<>>}

StartAny ==
    /\ AllFree
    /\ served < MaxServed
    /\ \E q \in AllRequests, t \in Times : Start(1, q, t)
    /\ served' = served + 1

NextAll ==
    \/ StartAny
    \/ \E r \in Slots : Finish(r)
    \/ \E r \in Slots, ok \in BOOLEAN :
          \/ UsersAwait(r, ok)
          \/ DivesListSelect(r, ok)
          \/ DivesDetailSelect(r, ok)
          \/ CreateGetUser(r, ok)
          \/ CreateCount(r, ok)
          \/ CreateInsert(r, ok)
          \/ CreateReadDeepest(r, ok)
          \/ CreateUpdate(r, ok)
          \/ RegisterSignUp(r, ok)
          \/ RegisterInsert(r, ok)
          \/ LoginSignIn(r, ok)
          \/ LoginSelect(r, ok)
          \/ LogoutSignOut(r, ok)
          \/ ProfileGetUser(r, ok)
          \/ ProfileSelect(r, ok)

SpecAll == InitFresh /\ [][NextAll]_vars

(* SpecEnv: the requests whose 500 responses can carry error detail       *)
(* (registration, dive creation, a body that is not JSON), one at a time,  *)
(* in every environment.                                                   *)
EnvRequests ==
    MalformedRequests
        \cup {q \in RegisterRequests :
                q.body = RegisterBody(EmailOf(3), PasswordOk, NameOf(3))}
        \cup {q \in CreateRequests :
                /\ q.authorization = Bearer(TokenOf(1))
                /\ q.body.dive_type = "freediving" /\ q.body.max_depth = 1}

StartEnv ==
    /\ AllFree
    /\ served < MaxServed
    /\ \E q \in EnvRequests, t \in Times : Start(1, q, t)
    /\ served' = served + 1

NextEnv ==
    \/ StartEnv
    \/ \E r \in Slots : Finish(r)
    \/ \E r \in Slots, ok \in BOOLEAN :
          \/ CreateGetUser(r, ok)
          \/ CreateCount(r, ok)
          \/ CreateInsert(r, ok)
          \/ CreateReadDeepest(r, ok)
          \/ CreateUpdate(r, ok)
          \/ RegisterSignUp(r, ok)
          \/ RegisterInsert(r, ok)

SpecEnv == InitAll /\ [][NextEnv]_vars

----------------------------------------------------------------------------
(* Claims *)

Done(r) == pc[r] = "done"
IsCreate(q) == q.router = "dives" /\ q.method = "POST" /\ q.seg = SegCreate
DivesOf(u) == RowsEq(dives, "user_id", u)
UserIds == {users[i].id : i \in 1..Len(users)}
Quiet == \A r \in Slots : pc[r] \in {"idle", "done"}

(* The dive_numbers of user u's rows, in insertion order. *)
NumbersOf(u) ==
    LET F[i \in 0..Len(dives)] ==
            IF i = 0 THEN <<>>
            ELSE IF dives[i].user_id = u THEN Append(F[i - 1], dives[i].dive_number)
            ELSE F[i - 1]
    IN  F[Len(dives)]

(* SeededDives and SeededUsers are tables the program produces. *)
SeededReachable == dives = SeededDives /\ users = SeededUsers

(* C1: requests run one after another, every provider call succeeding:    *)
(* the k-th dive of a user gets dive_number k (also in the response), and  *)
(* once the last request is over total_dives is the number of the user's   *)
(* dives and deepest_dive the largest of their max_depth.                  *)
C1_SequentialCounters ==
    /\ \A u \in UserIds : NumbersOf(u) = [k \in 1..Cardinality(DivesOf(u)) |-> k]
    /\ \A r \in Slots :
          Done(r) /\ res[r].status = 201 =>
              res[r].data.stats.dive_number =
                  Cardinality(DivesOf(res[r].data.dive.user_id))
    /\ Quiet =>
          \A i \in 1..Len(users) :
              LET mine == DivesOf(users[i].id)
              IN  /\ users[i].total_dives = Cardinality(mine)
                  /\ users[i].deepest_dive =
                        IF mine = {} THEN Null
                        ELSE Max({dives[j].max_depth : j \in mine})

(* Three dives of one user, the deepest in the middle. *)
C1_Witness ==
    /\ Quiet
    /\ Len(dives) = 3
    /\ \A j \in 1..3 : dives[j].user_id = UserId(1)
    /\ <<dives[1].max_depth, dives[2].max_depth, dives[3].max_depth>> = <<1, 2, 1>>
    /\ users[1].total_dives = 3
    /\ users[1].deepest_dive = 2

(* C2: under any interleaving the dive_numbers of a user's rows are        *)
(* pairwise distinct and are exactly 1..n.                                 *)
C2_PerUserSequential ==
    \A u \in UserIds :
        LET mine == DivesOf(u)
        IN  /\ \A i, j \in mine : i # j => dives[i].dive_number # dives[j].dive_number
            /\ {dives[i].dive_number : i \in mine} = 1..Cardinality(mine)

(* C3: no step of the dive-creation flow lowers a user's total_dives. *)
C3_TotalNeverDecremented ==
    [][\A i \in 1..Len(users) : users'[i].total_dives >= users[i].total_dives]_vars

(* C4: no step of the dive-creation flow makes a stored deepest_dive       *)
(* smaller (or unset).                                                     *)
C4_DeepestNeverSmaller ==
    [][\A i \in 1..Len(users) :
          users[i].deepest_dive # Null =>
              /\ users'[i].deepest_dive # Null
              /\ users'[i].deepest_dive >= users[i].deepest_dive]_vars

(* The identifier pattern as the specification words it: five groups of   *)
(* 8-4-4-4-12 hex digits, the third starting with 1-5, the fourth with     *)
(* 8, 9, a or b.                                                           *)
HexGroup(s, from, n) == \A i \in from..(from + n - 1) : s[i] \in HexSet

UuidPattern(s) ==
    /\ Len(s) = 8 + 4 + 4 + 4 + 12 + 4
    /\ HexGroup(s, 1, 8) /\ s[9] = "-"
    /\ HexGroup(s, 10, 4) /\ s[14] = "-"
    /\ HexGroup(s, 15, 4) /\ s[19] = "-"
    /\ HexGroup(s, 20, 4) /\ s[24] = "-"
    /\ HexGroup(s, 25, 12)
    /\ s[15] \in {"1", "2", "3", "4", "5"}
    /\ s[20] \in {"8", "9", "a", "b", "A", "B"}

AllowedSet == {"name", "bio", "location", "diving_experience",
               "certifications", "social_links", "preferences"}

Serving(r) == req[r].router # "none"
IsSearch(q) == q.router = "users" /\ q.method = "GET" /\ q.seg = SegSearch
ById(q) == Dispatch(q) \in {"users.detail", "users.update", "dives.detail"}
Answered(r, status) == Done(r) /\ res[r].status = status

(* C5: GET /api/users/search is answered by the search handler: 200 with  *)
(* at most 20 results when q has two characters or more, and the search    *)
(* handler's own 400 otherwise.                                            *)
C5_SearchReached ==
    \A r \in Slots :
        Serving(r) /\ IsSearch(req[r]) /\ Done(r) =>
            /\ res[r].handler = "users.search"
            /\ IF Len(Trim(req[r].query.q)) >= 2
               THEN res[r].status \in {200, 500}
                    /\ (res[r].status = 200 => res[r].data.total_found <= 20)
               ELSE res[r].status = 400 /\ res[r].error = "short_query"

(* C6 as claimed: an identifier that does not match the pattern is         *)
(* answered 400 with no provider call issued; one that matches makes the   *)
(* handler call the provider.                                              *)
C6_GuardThenProvider ==
    \A r \in Slots :
        Serving(r) /\ ById(req[r]) =>
            IF UuidPattern(req[r].seg)
            THEN calls[r] # <<>>
            ELSE Answered(r, 400) /\ calls[r] = <<>>

(* C6 as amended: the same, except that PUT /api/users/:id with a          *)
(* matching identifier and no allow-listed key in its body is answered     *)
(* 400 before any provider call.                                           *)
C6_GuardBeforeProvider ==
    \A r \in Slots :
        Serving(r) /\ ById(req[r]) =>
            IF ~UuidPattern(req[r].seg)
            THEN Answered(r, 400) /\ calls[r] = <<>>
            ELSE IF req[r].method = "PUT" /\ DOMAIN req[r].body \cap AllowedSet = {}
            THEN Answered(r, 400) /\ calls[r] = <<>>
            ELSE /\ calls[r] # <<>>
                 /\ calls[r][1] = CASE Dispatch(req[r]) = "users.detail" -> "users.detail.select"
                                    [] Dispatch(req[r]) = "users.update" -> "users.update.update"
                                    [] Dispatch(req[r]) = "dives.detail" -> "dives.detail.select"

(* An identifier with version nibble 6 was refused, and no call was made. *)
C6_Witness ==
    \E r \in Slots :
        /\ Serving(r) /\ req[r].router = "dives" /\ req[r].seg = Version6Id
        /\ Answered(r, 400) /\ calls[r] = <<>>

(* The requests whose path or body fails a check the handler can make     *)
(* without the provider: a malformed identifier, a missing required        *)
(* field, a password under 6 characters, a dive type that is neither       *)
(* freediving nor scuba, an update with no allow-listed key.               *)
LocallyInvalid(q) ==
    LET h == Dispatch(q)
    IN  \/ ById(q) /\ ~UuidPattern(q.seg)
        \/ h = "users.update" /\ DOMAIN q.body \cap AllowedSet = {}
        \/ h = "auth.register" /\ \/ <<>> \in {q.body.email, q.body.password, q.body.name}
                                  \/ Len(q.body.password) < 6
        \/ h = "auth.login" /\ <<>> \in {q.body.email, q.body.password}
        \/ h = "dives.create" /\ \/ "" \in {q.body.dive_type, q.body.location_name,
                                            q.body.dive_date}
                                 \/ q.body.max_depth = 0
                                 \/ q.body.dive_type \notin {"freediving", "scuba"}

(* C7 as claimed: in every handler a request that fails local validation  *)
(* is answered 400 and no provider call, auth or database, is issued for   *)
(* it.                                                                     *)
C7_LocalBeforeRemote ==
    \A r \in Slots :
        Serving(r) /\ LocallyInvalid(req[r]) =>
            Answered(r, 400) /\ calls[r] = <<>>

(* C7 as amended: that holds in every handler but POST /api/dives/create, *)
(* which checks the bearer token first: without a token the answer is 401  *)
(* with no provider call; with one, auth.getUser is the only provider call *)
(* issued, the answer is 401 when the token belongs to no account and 400  *)
(* or 401 otherwise, and no database call is made.                         *)
C7_LocalBeforeDatabase ==
    \A r \in Slots :
        Serving(r) /\ LocallyInvalid(req[r]) =>
            IF Dispatch(req[r]) # "dives.create"
            THEN Answered(r, 400) /\ calls[r] = <<>>
            ELSE IF bearerToken(req[r]) = <<>>
            THEN Answered(r, 401) /\ calls[r] = <<>>
            ELSE /\ calls[r] = <<"dives.create.getUser">>
                 /\ pc[r] \in {"dives.create.getUser", "done"}
                 /\ Done(r) => res[r].status \in {400, 401}
                 /\ Done(r) /\ AccountOfToken(bearerToken(req[r])) = 0 =>
                       res[r].status = 401

(* POST /api/dives/create with a good token and a bad dive_type was       *)
(* answered 400 after auth.getUser had been called.                        *)
C7_Witness ==
    \E r \in Slots :
        /\ Serving(r) /\ Dispatch(req[r]) = "dives.create"
        /\ req[r].body.dive_type = "kayaking"
        /\ Answered(r, 400) /\ calls[r] = <<"dives.create.getUser">>

(* A register request with a 3-character password was answered 400 with  *)
(* nothing sent to the provider.                                           *)
C7_WitnessRegister ==
    \E r \in Slots :
        /\ Serving(r) /\ Dispatch(req[r]) = "auth.register"
        /\ req[r].body.email # <<>> /\ req[r].body.name # <<>>
        /\ Len(req[r].body.password) \in 1..5
        /\ Answered(r, 400) /\ calls[r] = <<>>

(* C8: for PUT /api/users/:id with a valid identifier the object sent to   *)
(* the provider holds exactly the allow-listed keys of the body, with the  *)
(* body's values, and a server-set updated_at; with no such key the        *)
(* answer is 400, lists the allowed fields, and no provider call is made.  *)
C8_AllowListFilter ==
    \A r \in Slots :
        Serving(r) /\ Dispatch(req[r]) = "users.update" /\ UuidPattern(req[r].seg) =>
            LET body == req[r].body
                keep == DOMAIN body \cap AllowedSet
            IN  IF keep = {}
                THEN /\ Answered(r, 400) /\ calls[r] = <<>>
                     /\ {res[r].data.allowed_fields[i] :
                            i \in 1..Len(res[r].data.allowed_fields)} = AllowedSet
                ELSE /\ calls[r] = <<"users.update.update">>
                     /\ ~Answered(r, 400)
                     /\ pc[r] = "users.update.update" =>
                           /\ DOMAIN loc[r].filteredData = keep \cup {"updated_at"}
                           /\ \A k \in keep : loc[r].filteredData[k] = body[k]
                           /\ loc[r].filteredData["updated_at"] \in Times
                     /\ Answered(r, 200) =>
                           res[r].data.updated_fields = keep \cup {"updated_at"}

(* A body with an allowed and a disallowed key is about to be sent. *)
C8_Witness ==
    \E r \in Slots :
        /\ pc[r] = "users.update.update"
        /\ DOMAIN req[r].body = {"name", "id"}
        /\ DOMAIN loc[r].filteredData = {"name", "updated_at"}

(* C9: no PUT /api/users/:id, whatever its body, changes a stored id,      *)
(* email, total_dives, deepest_dive or created_at, adds or removes a row,  *)
(* or leaves a client-chosen updated_at: a changed row carries a server    *)
(* clock reading.                                                          *)
C9_ProtectedColumns ==
    [][/\ Len(users') = Len(users)
       /\ \A i \in 1..Len(users) :
             /\ \A c \in {"id", "email", "total_dives", "deepest_dive", "created_at"} :
                   users'[i][c] = users[i][c]
             /\ users'[i] # users[i] => users'[i].updated_at \in Times]_vars

(* A PUT whose body carried email and name was applied: only name changed. *)
C9_Witness ==
    \E r \in Slots :
        /\ Answered(r, 200) /\ req[r].method = "PUT"
        /\ DOMAIN req[r].body = {"email", "name"}
        /\ \E i \in 1..Len(users) :
              users[i].id = req[r].seg /\ users[i].name = ClientValue("name")

(* The number a one-digit query value states; 0 when it is none in        *)
(* 1..MaxPage.                                                             *)
Stated(raw) ==
    IF \E n \in 1..MaxPage : raw = <<DigitChar(n)>>
    THEN CHOOSE n \in 1..MaxPage : raw = <<DigitChar(n)>>
    ELSE 0

(* C10: for page >= 1 and limit >= 1 the two list handlers ask the         *)
(* provider for rows (page-1)*limit .. (page-1)*limit+limit-1 and report   *)
(* total_pages = ceil(total/limit), has_prev iff page > 1, has_next iff    *)
(* (page-1)*limit + limit < total.                                         *)
C10_Pagination ==
    \A r \in Slots :
        Serving(r) /\ Dispatch(req[r]) \in {"users.list", "dives.list"} =>
            LET page  == Stated(req[r].query.page)
                limit == Stated(req[r].query.limit)
                start == (page - 1) * limit
            IN  page >= 1 /\ limit >= 1 =>
                  /\ ~Done(r) => loc[r].range = <<start, start + limit - 1>>
                  /\ Answered(r, 200) =>
                        LET pg == res[r].data.pagination
                        IN  /\ pg.current_page = page /\ pg.per_page = limit
                            /\ pg.total >= 0
                            /\ pg.total_pages * limit >= pg.total
                            /\ (pg.total_pages - 1) * limit < pg.total
                            /\ pg.has_prev <=> page > 1
                            /\ pg.has_next <=> start + limit < pg.total

(* Page 2 of 3 rows, 2 to a page: the last page, not a full one. *)
C10_Witness ==
    \E r \in Slots :
        /\ Answered(r, 200) /\ Dispatch(req[r]) = "dives.list"
        /\ req[r].query.page = <<"2">> /\ req[r].query.limit = <<"2">>
        /\ res[r].data.pagination.total = 3
        /\ res[r].data.pagination.total_pages = 2
        /\ ~res[r].data.pagination.has_next

(* The step in which a provider call awaited for slot r, in one of the    *)
(* routes the claim names, reports a failure.  The calls that check a      *)
(* bearer token or a password (getUser, signInWithPassword) are left out:  *)
(* their failures are authentication errors, answered 401.                 *)
ProviderFailed(r) ==
    \/ UsersAwait(r, FALSE)
    \/ DivesListSelect(r, FALSE)
    \/ DivesDetailSelect(r, FALSE)
    \/ CreateCount(r, FALSE)
    \/ CreateInsert(r, FALSE)
    \/ CreateReadDeepest(r, FALSE)
    \/ CreateUpdate(r, FALSE)
    \/ RegisterSignUp(r, FALSE)
    \/ RegisterInsert(r, FALSE)
    \/ LoginSelect(r, FALSE)
    \/ ProfileSelect(r, FALSE)

(* The step in which a single-row read or update for slot r succeeds but  *)
(* matches no row.                                                         *)
NoRowReported(r) ==
    \/ /\ pc[r] \in {"users.detail.select", "users.update.update"}
       /\ RowsEq(users, "id", loc[r].userId) = {}
       /\ UsersAwait(r, TRUE)
    \/ /\ pc[r] = "dives.detail.select"
       /\ RowsEq(dives, "id", loc[r].diveId) = {}
       /\ DivesDetailSelect(r, TRUE)
    \/ /\ pc[r] = "auth.profile.select"
       /\ RowsEq(users, "id", loc[r].id) = {}
       /\ ProfileSelect(r, TRUE)

(* C11: in every route a provider call that finds no matching row is      *)
(* answered 404, and any other failure a provider call reports is          *)
(* answered 500.                                                           *)
C11_UniformTranslation ==
    [][\A r \in Slots :
          /\ NoRowReported(r) => pc'[r] = "done" /\ res'[r].status = 404
          /\ ProviderFailed(r) => pc'[r] = "done" /\ res'[r].status = 500]_vars

(* The step in which one of the calls that dive creation or login makes   *)
(* in sequence reports a failure.                                          *)
SequenceFailed(r) ==
    \/ CreateCount(r, FALSE)
    \/ CreateInsert(r, FALSE)
    \/ CreateReadDeepest(r, FALSE)
    \/ CreateUpdate(r, FALSE)
    \/ LoginSignIn(r, FALSE)
    \/ LoginSelect(r, FALSE)

(* C12: when a provider call of dive creation or login reports a failure  *)
(* the request is answered at once with an error status, never a 2xx, and  *)
(* no dive inserted before is undone.                                      *)
C12_FailureSurfaced ==
    [][\A r \in Slots :
          SequenceFailed(r) =>
              /\ pc'[r] = "done"
              /\ res'[r].status >= 400
              /\ Len(dives') >= Len(dives)
              /\ SubSeq(dives', 1, Len(dives)) = dives]_vars

(* C13: registering an email that has no account answers 201 and creates  *)
(* one auth account and one users row, whose id is the account's id and    *)
(* whose total_dives is 0; registering it again answers 409 with code      *)
(* EMAIL_ALREADY_EXISTS and creates no account and no users row.  Both     *)
(* with a valid name and password and a provider that reports no other     *)
(* error.                                                                  *)
C13_RegisterTwice ==
    [][\A r \in Slots :
          /\ RegisterSignUp(r, TRUE) =>
                IF \E n \in 1..Len(auth) : auth[n].email = loc[r].email
                THEN /\ pc'[r] = "done"
                     /\ res'[r].status = 409
                     /\ res'[r].error = "EMAIL_ALREADY_EXISTS"
                     /\ users' = users /\ auth' = auth
                ELSE /\ pc'[r] = "auth.register.insert"
                     /\ auth' = Append(auth, [email |-> loc[r].email,
                                              password |-> loc[r].password])
                     /\ users' = users
          /\ RegisterInsert(r, TRUE) =>
                /\ pc'[r] = "done" /\ res'[r].status = 201
                /\ auth' = auth
                /\ Len(users') = Len(users) + 1
                /\ SubSeq(users', 1, Len(users)) = users
                /\ LET row == users'[Len(users')]
                   IN  /\ row.email = loc[r].email
                       /\ row.total_dives = 0
                       /\ \E n \in 1..Len(auth) :
                             auth[n].email = row.email /\ row.id = UserId(n)
                       /\ res'[r].data.user = row]_vars

(* The email registered by an earlier request of this run was registered  *)
(* again and answered 409; it has one account and one users row.           *)
C13_Witness ==
    \E r \in Slots :
        /\ Serving(r) /\ Dispatch(req[r]) = "auth.register"
        /\ req[r].body.email = EmailOf(3)
        /\ Answered(r, 409) /\ res[r].error = "EMAIL_ALREADY_EXISTS"
        /\ Cardinality({n \in 1..Len(auth) : auth[n].email = EmailOf(3)}) = 1
        /\ Cardinality(RowsEq(users, "email", EmailOf(3))) = 1

(* C14: outside the development environment (production, or NODE_ENV not  *)
(* set) no 500 response, of a handler or of the error middleware, carries  *)
(* the provider's raw error message or a stack trace.                      *)
C14_NoRawDetailInProduction ==
    \A r \in Slots :
        Done(r) /\ res[r].status = 500 /\ env # "development" =>
            DOMAIN res[r].data \cap {"details", "stack", "message"} = {}

(* The token a request presents: the Authorization header without its     *)
(* "Bearer " prefix.                                                       *)
PresentedToken(q) ==
    IF Len(q.authorization) >= Len(BearerPrefix)
       /\ SubSeq(q.authorization, 1, Len(BearerPrefix)) = BearerPrefix
    THEN SubSeq(q.authorization, Len(BearerPrefix) + 1, Len(q.authorization))
    ELSE q.authorization

(* No header, an empty token, or a token of no account. *)
Unauthenticated(q) ==
    \/ PresentedToken(q) = <<>>
    \/ \A n \in 1..Len(auth) : TokenOf(n) # PresentedToken(q)

(* C15: POST /api/dives/create without an Authorization header, with an   *)
(* empty token or with a token the provider resolves to no user is         *)
(* answered 401 whatever its body, never gets past the token check, and    *)
(* no step taken while it is served inserts a dive or changes a users row. *)
C15_TokenRequired ==
    [][\A r \in Slots :
          /\ IsCreate(req'[r]) /\ Unauthenticated(req'[r]) =>
                /\ pc'[r] \in {"dives.create.getUser", "done"}
                /\ pc'[r] = "done" => res'[r].status = 401
          /\ IsCreate(req[r]) /\ Unauthenticated(req[r]) =>
                dives' = dives /\ users' = users]_vars

(* A valid body sent with a token of no account was answered 401. *)
C15_Witness ==
    \E r \in Slots :
        /\ IsCreate(req[r]) /\ req[r].authorization = Bearer(BadToken)
        /\ req[r].body.dive_type = "freediving" /\ req[r].body.max_depth >= 1
        /\ Answered(r, 401) /\ dives = <<>>

(* A dive creation with a token of an account and every required field,   *)
(* whose dive_type is neither freediving nor scuba.                        *)
BadTypeRequest(q) ==
    /\ IsCreate(q) /\ ~Unauthenticated(q)
    /\ q.body.location_name # "" /\ q.body.dive_date # "" /\ q.body.max_depth # 0
    /\ q.body.dive_type \notin {"", "freediving", "scuba"}

(* C16: such a request is answered 400 with the allowed types listed once *)
(* the token is resolved, goes no further in the handler, and no step      *)
(* taken while it is served inserts a dive or changes a users row.         *)
C16_BadTypeLeavesState ==
    [][\A r \in Slots :
          /\ BadTypeRequest(req'[r]) => pc'[r] \in {"dives.create.getUser", "done"}
          /\ BadTypeRequest(req[r]) => dives' = dives /\ users' = users
          /\ BadTypeRequest(req[r]) /\ CreateGetUser(r, TRUE) =>
                /\ pc'[r] = "done"
                /\ res'[r].status = 400
                /\ res'[r].data.allowed_types = <<"freediving", "scuba">>]_vars

(* A kayaking dive of the first account was refused with the list. *)
C16_Witness ==
    \E r \in Slots :
        /\ BadTypeRequest(req[r]) /\ req[r].authorization = Bearer(TokenOf(1))
        /\ Answered(r, 400) /\ res[r].error = "bad_dive_type"
        /\ users = FreshUsers /\ dives = <<>>

(* The dives of the same user that were inserted before dive d. *)
InsertedBefore(d) ==
    LET at == CHOOSE i \in 1..Len(dives) : dives[i].id = d.id
    IN  {i \in 1..(at - 1) : dives[i].user_id = d.user_id}

(* C17: in a 201 response of dive creation is_new_depth_record is true    *)
(* exactly when the new dive is strictly deeper than every dive of the     *)
(* same user inserted before it, under any interleaving of creations.      *)
C17_DepthRecordFlag ==
    \A r \in Slots :
        IsCreate(req[r]) /\ Answered(r, 201) =>
            LET d == res[r].data.dive
            IN  res[r].data.stats.is_new_depth_record
                    <=> \A i \in InsertedBefore(d) : d.max_depth > dives[i].max_depth

(* C18: when no dive creation is in flight (every provider call so far    *)
(* having succeeded) each user's total_dives is the number of that user's  *)
(* dive rows and deepest_dive the largest of their max_depth, whatever     *)
(* the interleaving of the creations was.                                  *)
C18_QuiescentCounters ==
    (\A r \in Slots : ~IsCreate(req[r]) \/ Done(r)) =>
        \A i \in 1..Len(users) :
            LET depths == {dives[j].max_depth : j \in DivesOf(users[i].id)}
            IN  /\ users[i].total_dives = Cardinality(DivesOf(users[i].id))
                /\ depths # {} => users[i].deepest_dive = Max(depths)

(* C19: once no registration is between its two provider calls, every     *)
(* auth account has its users row (so a registration that was not          *)
(* answered 201 left no account behind), and every dive's user_id is the   *)
(* id of a users row.                                                      *)
C19_RegistrationAllOrNothing ==
    (\A r \in Slots : pc[r] # "auth.register.insert") =>
        /\ \A n \in 1..Len(auth) :
              \E i \in 1..Len(users) :
                  users[i].id = UserId(n) /\ users[i].email = auth[n].email
        /\ \A j \in 1..Len(dives) : RowsEq(users, "id", dives[j].user_id) # {}

(* C20: whatever the page and limit query values are (absent, not         *)
(* numeric, zero, negative), the two list handlers ask the provider for a  *)
(* range with 0 <= start <= end and report per_page >= 1 and               *)
(* total_pages >= 0.                                                       *)
C20_RangeWellFormed ==
    \A r \in Slots :
        Serving(r) /\ Dispatch(req[r]) \in {"users.list", "dives.list"} =>
            /\ ~Done(r) => 0 <= loc[r].range[1] /\ loc[r].range[1] <= loc[r].range[2]
            /\ Answered(r, 200) =>
                  /\ res[r].data.pagination.per_page >= 1
                  /\ res[r].data.pagination.total_pages >= 0

====
